---- MODULE Spec2Model ----
(***************************************************************************)
(* Model of the scientists API (src/src/routes/scientists.js): the         *)
(* /scientists route handlers with their await points, the MongoDB         *)
(* connection lifecycle (connectWithRetry) and the content normalizer      *)
(* (optimizeContent).                                                      *)
(***************************************************************************)
EXTENDS Integers, Sequences, FiniteSets, TLC

VARIABLES
    store,      \* the scientists collection: a set of documents
    assets,     \* public_ids that exist in the external asset store
    nreq,       \* number of requests received so far (numbers _ids and uploads)
    pc,         \* position of the request being handled
    req,        \* the request being handled (method, params.id, body, file)
    doc,        \* the in-memory document the handler works on
    resp,       \* the response sent for the request
    log,        \* external calls made while handling the request, in order
    store0,     \* the collection as it was when the request was received
    orphaned,   \* public_ids released by a request whose store write then failed
    conn,       \* mongoose connection state
    attempts,   \* mongoose.connect() promises not settled yet
    dbUp,       \* whether the database is reachable
    timers,     \* delays of the pending setTimeout(connectWithRetry) timers
    listenCalls,    \* number of app.listen(PORT) calls
    sigHandlers,    \* number of SIGTERM/SIGINT handler pairs registered
    failures,   \* failed connect attempts so far (saturating at MaxFailures)
    content,    \* HTML handed to optimizeContent
    once,       \* optimizeContent(content)
    twice       \* optimizeContent(optimizeContent(content))

apiVars  == <<store, assets, nreq, pc, req, doc, resp, log, store0, orphaned>>
connVars == <<conn, attempts, dbUp, timers, listenCalls, sigHandlers, failures>>
normVars == <<content, once, twice>>
vars     == <<apiVars, connVars, normVars>>

----------------------------------------------------------------------------
(* Bounds *)
MaxRequests == 2
MaxListen   == 4
MaxFailures == 5
MaxNodes    == 2

----------------------------------------------------------------------------
(* Values *)
Undefined == "<undefined>"
NoImage   == <<>>

Truthy(v) == v # Undefined /\ v # ""

PatchFields == {"name", "title", "description", "achievements",
                "birthYear", "deathYear", "subject", "color"}

BodyValues == {"", "x"}

colors == <<"#3498db", "#e74c3c", "#2ecc71", "#f1c40f",
            "#9b59b6", "#1abc9c", "#e67e22", "#34495e">>

generateRandomColor == {colors[i] : i \in 1..Len(colors)}

Field(body, f) == IF f \in DOMAIN body THEN body[f] ELSE Undefined

PublicId(n) == <<"scientists/" \o ToString(n)>>

----------------------------------------------------------------------------
(* Asset Reference Resolver: cloudinary.url as a URL template expansion.   *)
NoOptions    == [k \in {} |-> 0]
ThumbOptions == [width |-> 200, height |-> 200, crop |-> "fill", quality |-> 80]

Transformation(options) ==
    IF "width" \notin DOMAIN options THEN <<>>
    ELSE <<"w_" \o ToString(options.width), "h_" \o ToString(options.height),
           "c_" \o options.crop, "q_" \o ToString(options.quality)>>

cloudinaryUrl(publicId, options) ==
    IF publicId = NoImage THEN NoImage
    ELSE <<"https://res.cloudinary.com/image/upload">> \o Transformation(options) \o publicId

resolveFull(a)      == cloudinaryUrl(a, NoOptions)
resolveThumbnail(a) == cloudinaryUrl(a, ThumbOptions)

ThumbnailOf(image) == cloudinaryUrl(image, ThumbOptions)

----------------------------------------------------------------------------
(* Documents of the Scientist model *)
NewScientist(id, data) ==
    [_id |-> id, name |-> data.name, subject |-> data.subject,
     color |-> data.color, image |-> data.image,
     title |-> Undefined, description |-> Undefined, achievements |-> Undefined,
     birthYear |-> Undefined, deathYear |-> Undefined, createdAt |-> id]

SeedDoc(image) ==
    NewScientist(0, [name |-> "seed", subject |-> "physics",
                     color |-> colors[1], image |-> image])

\* schema validation run by save(): name and subject are required
Validates(d) == Truthy(d.name) /\ Truthy(d.subject)

findById(id) == {d \in store : d._id = id}

RECURSIVE SortByCreatedAtDesc(_)
SortByCreatedAtDesc(S) ==
    IF S = {} THEN <<>>
    ELSE LET newest == CHOOSE d \in S : \A e \in S : e.createdAt <= d.createdAt
         IN  <<newest>> \o SortByCreatedAtDesc(S \ {newest})

\* doc.image = cloudinary.url(doc.image); doc.thumbnail = cloudinary.url(doc.image, {...})
SetUrls(o) ==
    LET image == cloudinaryUrl(o.image, NoOptions)
    IN  [o EXCEPT !.image = image, !.thumbnail = ThumbnailOf(image)]

toObject(d) == [f \in DOMAIN d \cup {"thumbnail"} |->
                    IF f = "thumbnail" THEN NoImage ELSE d[f]]

\* list / get-by-id: URLs are added only when the document has an image
WithUrls(d) == IF toObject(d).image # NoImage THEN SetUrls(toObject(d)) ELSE toObject(d)

ApplyField(d, body, f) == IF Truthy(Field(body, f)) THEN Field(body, f) ELSE d[f]

\* the eight `if (req.body.f) scientist.f = req.body.f` statements
ApplyBody(d, body) ==
    [f \in DOMAIN d |-> IF f \in PatchFields THEN ApplyField(d, body, f) ELSE d[f]]

fileFilter(originalnameExt) == originalnameExt \in {"jpg", "jpeg", "png", "gif"}

----------------------------------------------------------------------------
(* Requests *)
NoFile == ""
NoDoc  == [_id |-> -1]
NoReq  == [method |-> "none", id |-> -1, body |-> [k \in {} |-> ""],
           file |-> NoFile, filename |-> NoImage]
NoResp == [status |-> 0, body |-> <<>>]

Event(op, asset, ok) == [op |-> op, asset |-> asset, ok |-> ok]

Bodies(fields) == UNION {[S -> BodyValues] : S \in SUBSET fields}

\* request bodies tried: every combination of absent / empty / non-empty over
\* a required field and an optional field
PatchBodies == Bodies({"name", "description"})
PostBodies  == Bodies({"name", "subject"})
Files       == {NoFile, "png", "txt"}

Respond(status, body) ==
    /\ resp' = [status |-> status, body |-> body]
    /\ pc' = "done"

Receive(method, id, body, file) ==
    /\ pc = "idle"
    /\ nreq < MaxRequests
    /\ nreq' = nreq + 1
    /\ req' = [method |-> method, id |-> id, body |-> body,
               file |-> file, filename |-> NoImage]
    /\ pc' = IF method \in {"POST", "PATCH"} THEN "upload" ELSE "handler"
    /\ store0' = store
    /\ UNCHANGED <<store, assets, doc, resp, log, orphaned, connVars, normVars>>

\* the response has been sent: the request-scoped objects go away
EndRequest ==
    /\ pc = "done"
    /\ pc' = "idle"
    /\ req' = NoReq /\ doc' = NoDoc /\ resp' = NoResp /\ log' = <<>>
    /\ store0' = store
    /\ UNCHANGED <<store, assets, nreq, orphaned, connVars, normVars>>

\* upload.single('image'): multer with the Cloudinary storage engine
Upload ==
    /\ pc = "upload"
    /\ IF req.file = NoFile
       THEN /\ pc' = "handler"
            /\ UNCHANGED <<req, assets, resp, log>>
       ELSE IF ~fileFilter(req.file)
       THEN \* cb(new Error(...)) reaches the error-handling middleware
            /\ Respond(500, <<>>)
            /\ UNCHANGED <<req, assets, log>>
       ELSE \E ok \in BOOLEAN :
            /\ log' = Append(log, Event("upload", PublicId(nreq), ok))
            /\ IF ok
               THEN /\ assets' = assets \cup {PublicId(nreq)}
                    /\ req' = [req EXCEPT !.filename = PublicId(nreq)]
                    /\ pc' = "handler"
                    /\ UNCHANGED resp
               ELSE \* the storage engine's error reaches the error-handling middleware
                    /\ Respond(500, <<>>)
                    /\ UNCHANGED <<req, assets>>
    /\ UNCHANGED <<store, nreq, doc, store0, orphaned, connVars, normVars>>

\* `if (req.file)`
reqFileAlways == TRUE
reqFile == req.filename # NoImage

\* `if (req.file) { if (scientist.image) { await destroy } }`
releasePriorNever(scientist) == FALSE
releasePrior(scientist) == reqFile /\ scientist.image # NoImage

\* `scientist.image = req.file.filename`
setImageForgotten(scientist) == scientist
setImage(scientist) == [scientist EXCEPT !.image = req.filename]

Released == {log[i].asset : i \in {j \in 1..Len(log) : log[j].op = "destroy" /\ log[j].ok}}

\* router.get('/')
ListScientists ==
    /\ pc = "handler" /\ req.method = "LIST"
    /\ \E ok \in BOOLEAN :
         /\ log' = Append(log, Event("find", NoImage, ok))
         /\ IF ok
            THEN LET scientists == SortByCreatedAtDesc(store)
                 IN  Respond(200, [i \in 1..Len(scientists) |-> WithUrls(scientists[i])])
            ELSE Respond(500, <<>>)
    /\ UNCHANGED <<store, assets, nreq, req, doc, store0, orphaned, connVars, normVars>>

\* router.get('/:id')
GetScientist ==
    /\ pc = "handler" /\ req.method = "GET"
    /\ \E ok \in BOOLEAN :
         /\ log' = Append(log, Event("find", NoImage, ok))
         /\ IF ~ok THEN Respond(500, <<>>)
            ELSE IF findById(req.id) = {} THEN Respond(404, <<>>)
            ELSE Respond(200, <<WithUrls(CHOOSE d \in findById(req.id) : TRUE)>>)
    /\ UNCHANGED <<store, assets, nreq, req, doc, store0, orphaned, connVars, normVars>>

\* router.post('/'): up to `await scientist.save()`
PostHandler ==
    /\ pc = "handler" /\ req.method = "POST"
    /\ IF ~reqFile
       THEN /\ Respond(400, <<>>)
            /\ UNCHANGED doc
       ELSE /\ \E color \in generateRandomColor :
                 doc' = NewScientist(nreq, [name |-> Field(req.body, "name"),
                                            subject |-> Field(req.body, "subject"),
                                            color |-> color, image |-> req.filename])
            /\ pc' = "save"
            /\ UNCHANGED resp
    /\ UNCHANGED <<store, assets, nreq, req, log, store0, orphaned, connVars, normVars>>

\* router.post('/'): `await scientist.save()` and the response
PostSave ==
    /\ pc = "save" /\ req.method = "POST"
    /\ IF ~Validates(doc)
       THEN /\ log' = Append(log, Event("validate", NoImage, FALSE))
            /\ Respond(400, <<>>)
            /\ UNCHANGED store
       ELSE \E ok \in BOOLEAN :
            /\ log' = Append(log, Event("save", NoImage, ok))
            /\ IF ok
               THEN /\ store' = store \cup {doc}
                    /\ Respond(201, <<SetUrls(toObject(doc))>>)
               ELSE /\ Respond(400, <<>>)
                    /\ UNCHANGED store
    /\ UNCHANGED <<assets, nreq, req, doc, store0, orphaned, connVars, normVars>>

\* router.patch('/:id'): findById, the field assignments, up to the next await
PatchFind ==
    /\ pc = "handler" /\ req.method = "PATCH"
    /\ \E ok \in BOOLEAN :
         /\ log' = Append(log, Event("find", NoImage, ok))
         /\ IF ~ok
            THEN Respond(400, <<>>) /\ UNCHANGED doc
            ELSE IF findById(req.id) = {}
            THEN Respond(404, <<>>) /\ UNCHANGED doc
            ELSE LET scientist == ApplyBody(CHOOSE d \in findById(req.id) : TRUE, req.body)
                 IN  /\ UNCHANGED resp
                     /\ IF releasePrior(scientist)
                        THEN doc' = scientist /\ pc' = "destroy"
                        ELSE IF reqFile
                        THEN doc' = setImage(scientist) /\ pc' = "save"
                        ELSE doc' = scientist /\ pc' = "save"
    /\ UNCHANGED <<store, assets, nreq, req, store0, orphaned, connVars, normVars>>

\* router.patch('/:id'): `await cloudinary.uploader.destroy(scientist.image)`
PatchDestroy ==
    /\ pc = "destroy" /\ req.method = "PATCH"
    /\ \E ok \in BOOLEAN :
         /\ log' = Append(log, Event("destroy", doc.image, ok))
         /\ IF ok
            THEN /\ assets' = assets \ {doc.image}
                 /\ doc' = setImage(doc)
                 /\ pc' = "save"
                 /\ UNCHANGED resp
            ELSE /\ Respond(400, <<>>)
                 /\ UNCHANGED <<assets, doc>>
    /\ UNCHANGED <<store, nreq, req, store0, orphaned, connVars, normVars>>

\* router.patch('/:id'): `await scientist.save()` and the response
PatchSave ==
    /\ pc = "save" /\ req.method = "PATCH"
    /\ IF ~Validates(doc)
       THEN /\ log' = Append(log, Event("validate", NoImage, FALSE))
            /\ Respond(400, <<>>)
            /\ orphaned' = orphaned \cup Released
            /\ UNCHANGED store
       ELSE \E ok \in BOOLEAN :
            /\ log' = Append(log, Event("save", NoImage, ok))
            /\ IF ok
               THEN /\ store' = (store \ findById(doc._id)) \cup {doc}
                    /\ Respond(200, <<SetUrls(toObject(doc))>>)
                    /\ UNCHANGED orphaned
               ELSE /\ Respond(400, <<>>)
                    /\ orphaned' = orphaned \cup Released
                    /\ UNCHANGED store
    /\ UNCHANGED <<assets, nreq, req, doc, store0, connVars, normVars>>

\* router.delete('/:id'): findById
DeleteFind ==
    /\ pc = "handler" /\ req.method = "DELETE"
    /\ \E ok \in BOOLEAN :
         /\ log' = Append(log, Event("find", NoImage, ok))
         /\ IF ~ok
            THEN Respond(500, <<>>) /\ UNCHANGED doc
            ELSE IF findById(req.id) = {}
            THEN Respond(404, <<>>) /\ UNCHANGED doc
            ELSE /\ doc' = CHOOSE d \in findById(req.id) : TRUE
                 /\ pc' = IF doc'.image # NoImage THEN "destroy" ELSE "remove"
                 /\ UNCHANGED resp
    /\ UNCHANGED <<store, assets, nreq, req, store0, orphaned, connVars, normVars>>

\* router.delete('/:id'): `await cloudinary.uploader.destroy(scientist.image)`
DeleteDestroy ==
    /\ pc = "destroy" /\ req.method = "DELETE"
    /\ \E ok \in BOOLEAN :
         /\ log' = Append(log, Event("destroy", doc.image, ok))
         /\ IF ok
            THEN /\ assets' = assets \ {doc.image}
                 /\ pc' = "remove"
                 /\ UNCHANGED resp
            ELSE /\ Respond(500, <<>>)
                 /\ UNCHANGED assets
    /\ UNCHANGED <<store, nreq, req, doc, store0, orphaned, connVars, normVars>>

\* router.delete('/:id'): `await Scientist.findByIdAndDelete(req.params.id)`
DeleteRemove ==
    /\ pc = "remove" /\ req.method = "DELETE"
    /\ \E ok \in BOOLEAN :
         /\ log' = Append(log, Event("remove", NoImage, ok))
         /\ IF ok
            THEN /\ store' = store \ findById(req.id)
                 /\ Respond(200, <<>>)
                 /\ UNCHANGED orphaned
            ELSE /\ Respond(500, <<>>)
                 /\ orphaned' = orphaned \cup Released
                 /\ UNCHANGED store
    /\ UNCHANGED <<assets, nreq, req, doc, store0, connVars, normVars>>

----------------------------------------------------------------------------
(* The request-handling specification *)
ApiIdle ==
    /\ store = {} /\ assets = {} /\ nreq = 0 /\ pc = "idle" /\ req = NoReq
    /\ doc = NoDoc /\ resp = NoResp /\ log = <<>> /\ store0 = {} /\ orphaned = {}

ConnIdle ==
    /\ conn = "disconnected" /\ attempts = 0 /\ dbUp = FALSE /\ timers = <<>>
    /\ listenCalls = 0 /\ sigHandlers = 0 /\ failures = 0

NormIdle == content = <<>> /\ once = <<>> /\ twice = <<>>

Init ==
    /\ \E image \in {NoImage, PublicId(0)}, seeded \in BOOLEAN :
         /\ store = IF seeded THEN {SeedDoc(image)} ELSE {}
         /\ assets = IF seeded /\ image # NoImage THEN {image} ELSE {}
         /\ store0 = store
    /\ nreq = 0 /\ pc = "idle" /\ req = NoReq /\ doc = NoDoc
    /\ resp = NoResp /\ log = <<>> /\ orphaned = {}
    /\ ConnIdle /\ NormIdle

ReceiveRequest ==
    \/ \E id \in 0..nreq :
         \/ Receive("GET", id, NoReq.body, NoFile)
         \/ Receive("DELETE", id, NoReq.body, NoFile)
         \/ \E body \in PatchBodies, file \in Files :
              Receive("PATCH", id, body, file)
    \/ Receive("LIST", -1, NoReq.body, NoFile)
    \/ \E body \in PostBodies, file \in Files :
         Receive("POST", -1, body, file)

Next ==
    \/ ReceiveRequest
    \/ Upload
    \/ ListScientists
    \/ GetScientist
    \/ PostHandler
    \/ PostSave
    \/ PatchFind
    \/ PatchDestroy
    \/ PatchSave
    \/ DeleteFind
    \/ DeleteDestroy
    \/ DeleteRemove
    \/ EndRequest

Spec == Init /\ [][Next]_vars

TypeOK == pc \in {"idle", "done", "upload", "handler", "save", "destroy", "remove"}

----------------------------------------------------------------------------
(* Properties of the request handlers *)
Done == pc = "done"

Events(op, ok) == {i \in 1..Len(log) : log[i].op = op /\ log[i].ok = ok}

StoreFailed == Events("find", FALSE) \cup Events("save", FALSE) \cup Events("remove", FALSE) # {}

\* the records addressed by the request, before and after it
Target0 == {d \in store0 : d._id = req.id}
Target  == {d \in store : d._id = req.id}

\* C1: when the release of the external asset fails during a DELETE, or during
\* a PATCH that replaces an image, the record mutation still proceeds: the
\* record is removed / the new image identifier is saved, and the request is
\* not failed because of the cleanup failure.
C1_CleanupFailureDoesNotBlock ==
    (Done /\ Events("destroy", FALSE) # {} /\ ~StoreFailed) =>
        /\ resp.status = 200
        /\ req.method = "DELETE" => Target = {}
        /\ req.method = "PATCH" => \E d \in Target : d.image = req.filename

\* C2: every record with an image carried by a response has
\* thumbnail = resolveThumbnail(a) and image = resolveFull(a) for its stored
\* identifier a, and the two differ.
C2_ThumbnailFromStoredId ==
    (Done /\ resp.status \in {200, 201}) =>
        \A i \in 1..Len(resp.body) : \A d \in store :
            (d._id = resp.body[i]._id /\ d.image # NoImage) =>
                /\ resp.body[i].image = resolveFull(d.image)
                /\ resp.body[i].thumbnail = resolveThumbnail(d.image)
                /\ resp.body[i].thumbnail # resp.body[i].image

ImageAccepted == req.file # NoFile /\ fileFilter(req.file)

CreatedOne ==
    \E d \in store :
        /\ d \notin store0
        /\ store = store0 \cup {d}
        /\ d.image = req.filename /\ d.image # NoImage
        /\ Len(resp.body) = 1
        /\ resp.body[1].image # NoImage
        /\ resp.body[1].thumbnail # NoImage

\* C4 as stated: POST without an image file fails with 400 and adds nothing;
\* with an attached image it always succeeds with 201 and adds one record.
C4_CreateAlwaysSucceedsWithImage ==
    (Done /\ req.method = "POST") =>
        /\ req.file = NoFile => (resp.status = 400 /\ store = store0)
        /\ ImageAccepted => (resp.status = 201 /\ CreatedOne)

\* C4 amended: POST without an image file fails with 400 and adds nothing;
\* with an image file that is accepted and uploaded it answers 201 exactly
\* when name and subject are both non-empty and the save succeeds, and then
\* exactly one record is
\* added, holding the uploaded identifier, with non-empty derived URLs in the
\* response; in every other case no record is added.
C4_CreateOutcome ==
    (Done /\ req.method = "POST") =>
        /\ req.file = NoFile => (resp.status = 400 /\ store = store0)
        /\ resp.status = 201 <=>
              /\ ImageAccepted /\ Events("upload", TRUE) # {}
              /\ Truthy(Field(req.body, "name")) /\ Truthy(Field(req.body, "subject"))
              /\ Events("save", FALSE) = {}
        /\ resp.status = 201 => CreatedOne
        /\ resp.status # 201 => store = store0

C4_Witness == Done /\ req.method = "POST" /\ resp.status = 201 /\ CreatedOne

\* C5: a successful PATCH gives every field present in the payload the
\* supplied value, leaves every absent field (image too when no file is
\* attached) unchanged, and changes no other record.
C5_PatchAppliesPresentFields ==
    (Done /\ req.method = "PATCH" /\ resp.status = 200) =>
        \E old \in Target0 : \E new \in Target :
            /\ \A f \in DOMAIN req.body : new[f] = req.body[f]
            /\ \A f \in (DOMAIN old) \ (DOMAIN req.body) :
                   (f # "image" \/ req.file = NoFile) => new[f] = old[f]
            /\ store \ {new} = store0 \ {old}

PriorImage == IF Target0 = {} THEN NoImage ELSE (CHOOSE d \in Target0 : TRUE).image

ReleaseDue ==
    /\ PriorImage # NoImage
    /\ \/ req.method = "DELETE"
       \/ req.method = "PATCH" /\ req.filename # NoImage

Writes == Events("save", TRUE) \cup Events("save", FALSE)
            \cup Events("remove", TRUE) \cup Events("remove", FALSE)
Destroys == Events("destroy", TRUE) \cup Events("destroy", FALSE)

\* C6: the release of the prior asset comes before the record mutation: a
\* PATCH with a new image on a record with an image, and a DELETE of a record
\* with an image, make exactly one release attempt, on the prior identifier,
\* before the store is written; no release is attempted otherwise.
C6_ReleaseBeforeMutation ==
    /\ Cardinality(Destroys) <= 1
    /\ \A i \in Destroys : ReleaseDue /\ log[i].asset = PriorImage
    /\ \A w \in Writes : ReleaseDue => \E i \in Destroys : i < w
    /\ (store # store0 /\ ReleaseDue) => Events("destroy", TRUE) # {}
    /\ (Done /\ resp.status = 200 /\ ReleaseDue) => Cardinality(Destroys) = 1
    /\ ~ReleaseDue => Destroys = {}

C6_Witness ==
    /\ Done /\ req.method = "PATCH" /\ resp.status = 200
    /\ Events("destroy", TRUE) # {}
    /\ \E d \in Target : d.image = req.filename /\ d.image # PriorImage

NotFound == req.method \in {"GET", "PATCH", "DELETE"} /\ Events("find", TRUE) # {} /\ Target0 = {}

\* C7: an id that matches no record yields 404, a validation failure 400 and
\* a failed database operation 500, never 400.
C7_ErrorTaxonomy ==
    Done =>
        /\ NotFound => resp.status = 404
        /\ Events("validate", FALSE) # {} => resp.status = 400
        /\ StoreFailed => resp.status = 500

Quiescent == pc \in {"idle", "done"}

\* C9 as stated: between requests every stored record's image identifier
\* refers to an asset that still exists.
C9_NoDanglingAsset ==
    Quiescent => \A d \in store : d.image # NoImage => d.image \in assets

\* C9 amended: between requests every stored record's image identifier refers
\* to an asset that still exists, unless it was released by a request whose
\* record save or row removal then failed.
C9_NoDanglingUnlessWriteFailed ==
    Quiescent => \A d \in store : d.image # NoImage => d.image \in assets \cup orphaned

C9_Witness ==
    /\ Done /\ req.method = "PATCH" /\ resp.status = 200
    /\ Events("destroy", TRUE) # {}
    /\ \E d \in Target : d.image = req.filename /\ d.image \in assets
    /\ PriorImage \notin assets

----------------------------------------------------------------------------
(* MongoDB connection lifecycle *)
RetryDelayMs == 5000

\* the delay passed to setTimeout(connectWithRetry, ...) after n failed attempts
retryDelayBackoff(n) == RetryDelayMs * (n + 1)
retryDelay(n) == RetryDelayMs

\* whether a retry is scheduled after n failed attempts
retryGivesUp(n) == n < 2
retryAfterFailure(n) == TRUE

ConnInit ==
    /\ ApiIdle /\ NormIdle
    /\ conn = "disconnected"
    /\ attempts = 1             \* connectWithRetry() at module load
    /\ dbUp \in BOOLEAN
    /\ timers = <<>>
    /\ listenCalls = 0 /\ sigHandlers = 0 /\ failures = 0

\* mongoose.connect(...).then(...): the server is started, handlers registered
ConnectResolved ==
    /\ attempts > 0 /\ dbUp
    /\ attempts' = attempts - 1
    /\ conn' = "connected"
    /\ listenCalls' = listenCalls + 1
    /\ sigHandlers' = sigHandlers + 1
    /\ UNCHANGED <<dbUp, timers, failures, apiVars, normVars>>

\* mongoose.connect(...).catch(...): retry after the fixed delay
ConnectRejected ==
    /\ attempts > 0 /\ ~dbUp
    /\ attempts' = attempts - 1
    /\ failures' = IF failures < MaxFailures THEN failures + 1 ELSE failures
    /\ timers' = IF retryAfterFailure(failures)
                 THEN Append(timers, retryDelay(failures)) ELSE timers
    /\ UNCHANGED <<conn, dbUp, listenCalls, sigHandlers, apiVars, normVars>>

\* mongoose.connection.on('disconnected')
Disconnected ==
    /\ conn = "connected"
    /\ listenCalls < MaxListen
    /\ conn' = "disconnected"
    /\ timers' = Append(timers, retryDelay(failures))
    /\ UNCHANGED <<attempts, dbUp, listenCalls, sigHandlers, failures, apiVars, normVars>>

\* a pending setTimeout fires and calls connectWithRetry
TimerFires ==
    /\ timers # <<>>
    /\ timers' = Tail(timers)
    /\ attempts' = attempts + 1
    /\ UNCHANGED <<conn, dbUp, listenCalls, sigHandlers, failures, apiVars, normVars>>

\* the database becomes reachable / unreachable
DbUp ==
    /\ ~dbUp /\ dbUp' = TRUE
    /\ UNCHANGED <<conn, attempts, timers, listenCalls, sigHandlers, failures, apiVars, normVars>>

DbDown ==
    /\ dbUp /\ dbUp' = FALSE
    /\ UNCHANGED <<conn, attempts, timers, listenCalls, sigHandlers, failures, apiVars, normVars>>

ConnNext ==
    \/ ConnectResolved
    \/ ConnectRejected
    \/ Disconnected
    \/ TimerFires
    \/ DbUp
    \/ DbDown

ConnSpec == ConnInit /\ [][ConnNext]_vars

\* the event loop runs due timers and settles promises
ConnFairSpec ==
    ConnSpec /\ WF_vars(TimerFires) /\ WF_vars(ConnectResolved) /\ WF_vars(ConnectRejected)

Listening == listenCalls >= 1

\* C8: a connect is attempted at startup; every failed attempt and every drop
\* of the connection schedules a new attempt after the same fixed delay,
\* whatever the number of failures so far; if the database eventually stays
\* reachable, the process eventually is connected with the server listening.
C8_ReconnectLifecycle ==
    /\ attempts = 1
    /\ [](\A i \in 1..Len(timers) : timers[i] = RetryDelayMs)
    /\ [][(attempts' < attempts /\ conn' # "connected") =>
              timers' = Append(timers, RetryDelayMs)]_vars
    /\ [][(conn = "connected" /\ conn' # "connected") =>
              timers' = Append(timers, RetryDelayMs)]_vars
    /\ (<>[]dbUp) => <>(conn = "connected" /\ Listening)

C8_Witness ==
    /\ conn = "connected" /\ Listening
    /\ failures >= 2 /\ listenCalls >= 2

\* C10: the HTTP server is started at most once and the signal handlers are
\* registered at most once, also across reconnects.
C10_ListenAtMostOnce == listenCalls <= 1 /\ sigHandlers <= 1

----------------------------------------------------------------------------
(* Content Normalizer.  HTML is a sequence of nodes; an element has a tag,  *)
(* attributes, a class list and children; text is a "#text" node holding a  *)
(* sequence of characters.                                                  *)
NoAttrs == [loading |-> Undefined, alt |-> Undefined, href |-> <<>>,
            target |-> Undefined, rel |-> Undefined, id |-> <<Undefined>>]

Element(tag, attrs, class, kids) ==
    [tag |-> tag, attrs |-> attrs, class |-> class, kids |-> kids, text |-> <<>>]

Text(chars) ==
    [tag |-> "#text", attrs |-> NoAttrs, class |-> <<>>, kids |-> <<>>, text |-> chars]

AltPlaceholder == "image"   \* the placeholder alt text

\* cheerio.load(content): a fragment is placed in html > (head, body); a
\* serialized document parses back to itself
load(html) ==
    IF Len(html) = 1 /\ html[1].tag = "html" THEN html
    ELSE <<Element("html", NoAttrs, <<>>,
             <<Element("head", NoAttrs, <<>>, <<>>), Element("body", NoAttrs, <<>>, html)>>)>>

\* .addClass(name): appended unless the class list has it
addClass(class, name) ==
    IF \E i \in 1..Len(class) : class[i] = name THEN class ELSE Append(class, name)

RECURSIVE Concat(_)
Concat(seqs) == IF seqs = <<>> THEN <<>> ELSE Head(seqs) \o Concat(Tail(seqs))

\* .text(): the text of the descendants, in document order
RECURSIVE text(_)
text(node) ==
    IF node.tag = "#text" THEN node.text
    ELSE Concat([i \in 1..Len(node.kids) |-> text(node.kids[i])])

UpperCase == <<"A", "B", "C", "D", "E", "F", "G", "H", "I", "J", "K", "L", "M",
               "N", "O", "P", "Q", "R", "S", "T", "U", "V", "W", "X", "Y", "Z">>
LowerCase == <<"a", "b", "c", "d", "e", "f", "g", "h", "i", "j", "k", "l", "m",
               "n", "o", "p", "q", "r", "s", "t", "u", "v", "w", "x", "y", "z">>

toLowerCase(chars) ==
    [i \in 1..Len(chars) |->
        IF \E k \in 1..26 : UpperCase[k] = chars[i]
        THEN LowerCase[CHOOSE k \in 1..26 : UpperCase[k] = chars[i]]
        ELSE chars[i]]

IsSpace(c) == c \in {" ", "\t", "\n"}

\* .replace(/\s+/g, '-'): every maximal run of whitespace becomes one hyphen
RECURSIVE replaceSpaces(_)
replaceSpaces(chars) ==
    IF chars = <<>> THEN <<>>
    ELSE IF IsSpace(Head(chars))
    THEN IF Len(chars) > 1 /\ IsSpace(chars[2])
         THEN replaceSpaces(Tail(chars))
         ELSE <<"-">> \o replaceSpaces(Tail(chars))
    ELSE <<Head(chars)>> \o replaceSpaces(Tail(chars))

headingId(node) == replaceSpaces(toLowerCase(text(node)))

startsWith(chars, c) == Len(chars) > 0 /\ chars[1] = c

\* $('img').each(...)
RECURSIVE optimizeImages(_)
optimizeImages(nodes) ==
    [i \in 1..Len(nodes) |->
        LET n == [nodes[i] EXCEPT !.kids = optimizeImages(@)]
        IN  IF n.tag = "img"
            THEN [n EXCEPT !.attrs.loading = "lazy",
                           !.attrs.alt = IF Truthy(@) THEN @ ELSE AltPlaceholder,
                           !.class = addClass(@, "responsive-image")]
            ELSE n]

\* $('a').each(...)
RECURSIVE optimizeLinks(_)
optimizeLinks(nodes) ==
    [i \in 1..Len(nodes) |->
        LET n == [nodes[i] EXCEPT !.kids = optimizeLinks(@)]
            href == n.attrs.href
        IN  IF n.tag = "a" /\ href # <<>> /\ ~startsWith(href, "/") /\ ~startsWith(href, "#")
            THEN [n EXCEPT !.attrs.target = "_blank",
                           !.attrs.rel = "noopener noreferrer",
                           !.class = addClass(@, "external-link")]
            ELSE n]

\* $('h1, h2, h3, h4, h5, h6').each(...)
RECURSIVE optimizeHeadings(_)
optimizeHeadings(nodes) ==
    [i \in 1..Len(nodes) |->
        LET n == [nodes[i] EXCEPT !.kids = optimizeHeadings(@)]
        IN  IF n.tag \in {"h1", "h2", "h3", "h4", "h5", "h6"}
            THEN [n EXCEPT !.attrs.id = headingId(n)]
            ELSE n]

\* $('table').each(...): wrap in <div class="table-responsive">, add class
RECURSIVE optimizeTables(_)
optimizeTables(nodes) ==
    [i \in 1..Len(nodes) |->
        LET n == [nodes[i] EXCEPT !.kids = optimizeTables(@)]
        IN  IF n.tag = "table"
            THEN Element("div", NoAttrs, <<"table-responsive">>,
                         <<[n EXCEPT !.class = addClass(@, "table")]>>)
            ELSE n]

\* $('pre').each(...)
RECURSIVE optimizePre(_)
optimizePre(nodes) ==
    [i \in 1..Len(nodes) |->
        LET n == [nodes[i] EXCEPT !.kids = optimizePre(@)]
        IN  IF n.tag = "pre" THEN [n EXCEPT !.class = addClass(@, "code-block")] ELSE n]

optimizeContent(html) ==
    optimizePre(optimizeTables(optimizeHeadings(optimizeLinks(optimizeImages(load(html))))))

----------------------------------------------------------------------------
(* Inputs of the normalizer *)
HelloWorld == <<"H", "e", "l", "l", "o", " ", "W", "o", "r", "l", "d">>
Spaced     == <<"A", " ", "\t", "b">>

Img(alt, loading, class) ==
    Element("img", [NoAttrs EXCEPT !.alt = alt, !.loading = loading], class, <<>>)

Anchor(href, kids) == Element("a", [NoAttrs EXCEPT !.href = href], <<>>, kids)

External == <<"h", "t", "t", "p", "s", ":", "/", "/", "e", ".", "c", "o", "m">>
Local    == <<"/", "l", "o", "c", "a", "l">>
Fragment == <<"#", "f", "r", "a", "g">>

SampleNodes ==
    {Img(alt, loading, class) : alt \in {Undefined, "", "photo"},
                                loading \in {Undefined, "eager"},
                                class \in {<<>>, <<"wide">>}}
    \cup {Anchor(href, <<Text(HelloWorld)>>) : href \in {<<>>, External, Local, Fragment}}
    \cup {Anchor(External, <<Img(Undefined, Undefined, <<>>)>>)}
    \cup {Element(tag, NoAttrs, <<>>, <<Text(t)>>) : tag \in {"h1", "h2", "h6"},
                                                      t \in {HelloWorld, Spaced}}
    \cup {Element("h2", [NoAttrs EXCEPT !.id = <<"x">>], <<>>,
                  <<Anchor(Local, <<Text(Spaced)>>)>>)}
    \cup {Element("table", NoAttrs, class, kids) :
              class \in {<<>>, <<"table">>},
              kids \in {<<>>, <<Element("caption", NoAttrs, <<>>, <<Text(HelloWorld)>>)>>}}
    \cup {Element("div", NoAttrs, <<"table-responsive">>,
                  <<Element("table", NoAttrs, <<"table">>, <<>>)>>)}
    \cup {Element("pre", NoAttrs, class, <<Text(Spaced)>>) : class \in {<<>>, <<"code-block">>}}
    \cup {Element("p", NoAttrs, <<>>, <<Text(HelloWorld)>>), Text(Spaced)}

Contents == UNION {[1..n -> SampleNodes] : n \in 0..MaxNodes}

NormInit ==
    /\ ApiIdle /\ ConnIdle
    /\ content \in Contents
    /\ once = <<>> /\ twice = <<>>

\* a gateway handler normalizes the rendered HTML it fetched
Normalize ==
    /\ once = <<>>
    /\ once' = optimizeContent(content)
    /\ UNCHANGED <<content, twice, apiVars, connVars>>

\* the normalized HTML is normalized again
NormalizeAgain ==
    /\ once # <<>> /\ twice = <<>>
    /\ twice' = optimizeContent(once)
    /\ UNCHANGED <<content, once, apiVars, connVars>>

NormNext == Normalize \/ NormalizeAgain

NormSpec == NormInit /\ [][NormNext]_vars

\* C3: optimizeContent is idempotent: normalizing normalized HTML changes
\* nothing.
C3_NormalizerIdempotent == twice # <<>> => twice = once

====
